---- MODULE Spec2Model ----
(***************************************************************************)
(* Model of rust-tracker: the Task Store (backend/src/database.rs,         *)
(* handlers.rs, error.rs) and the drag-and-drop board of the frontend      *)
(* (frontend/src/components/task_list.rs, card.rs, pages/home.rs).         *)
(***************************************************************************)
EXTENDS Integers, Sequences, FiniteSets, Bags, TLC

\* Option<T>: None is the empty tuple, Some(x) the one-element tuple.
None == <<>>
Some(x) == <<x>>
IsSome(o) == o # None
Unwrap(o) == o[1]

(***************************************************************************)
(* Bounds                                                                  *)
(***************************************************************************)
\* Largest value the wall clock (Utc::now) takes.
MaxClock == 1

\* Task ids the Store is called with (id 2 has no row) and the backend
\* request handlers that can run at the same time.
Ids == {1, 2}
Procs == {"p1", "p2"}

(***************************************************************************)
(* common/src/lib.rs                                                       *)
(***************************************************************************)
TaskStatus == {"Todo", "InProgress", "Completed", "Backlog"}
TaskPriority == {"Low", "Medium", "High", "Urgent"}

Task(id, title, description, status, priority, due_date, created_at, updated_at) ==
    [id |-> id, title |-> title, description |-> description, status |-> status,
     priority |-> priority, due_date |-> due_date,
     created_at |-> created_at, updated_at |-> updated_at]

UpdateTaskRequest(title, description, status, priority, due_date) ==
    [title |-> title, description |-> description, status |-> status,
     priority |-> priority, due_date |-> due_date]

\* The request with every field absent.
EmptyRequest == UpdateTaskRequest(None, None, None, None, None)

\* What handle_drop sends: the status alone.
StatusRequest(status) == UpdateTaskRequest(None, None, Some(status), None, None)

\* The update requests the Store is called with: none, one or several fields
\* present; pairs that set the same field to different values (status,
\* priority) and pairs that set disjoint fields.
UpdateRequests ==
    { EmptyRequest,
      StatusRequest("InProgress"),
      UpdateTaskRequest(None, None, Some("Completed"), Some("High"), None),
      UpdateTaskRequest(Some("b"), Some("d"), None, Some("Urgent"), Some(2)) }

Fields == {"title", "description", "status", "priority", "due_date"}

\* The fields of a Task as SQL column values (NULL is None).
Column(task, f) ==
    CASE f = "title" -> Some(task.title)
      [] f = "description" -> task.description
      [] f = "status" -> Some(task.status)
      [] f = "priority" -> Some(task.priority)
      [] f = "due_date" -> task.due_date

VARIABLES
    rows,       \* the tasks table: id -> Option<Task>
    clock,      \* the wall clock read by Utc::now()
    calls,      \* per backend handler: where its update_task call stands
    last,       \* the Store call that completed in the step just taken, if any
    client,     \* the browser: HomePage and TaskList signals, requests in
                \* flight, pending timers
    user,       \* the drag gesture in progress and what the user and the other
                \* clients have done so far
    just,       \* what the client handled in the step just taken, if anything
    wire,       \* the HTTP boundary: the request or value being encoded or
                \* decoded in the step just taken, and what came of it
    view,       \* the columns of TaskList: the tasks and the priority filter
                \* given to filter_and_group_tasks, and the groups it returned
    limiter     \* RateLimiter: its configuration, its clients map and lock,
                \* the monotonic clock and the calls of is_allowed in progress

storeVars == <<rows, clock, calls, last>>
boardVars == <<client, user, just>>
vars == <<rows, clock, calls, last, client, user, just, wire, view, limiter>>

(***************************************************************************)
(* backend/src/error.rs                                                    *)
(***************************************************************************)
TaskNotFound == [kind |-> "TaskNotFound", detail |-> ""]
\* Text is a sequence of characters; str::contains.
contains(s, pat) ==
    \E i \in 0..(Len(s) - Len(pat)) : SubSeq(s, i + 1, i + Len(pat)) = pat

\* sqlx::Error. An error the database reported (as_database_error is Some)
\* carries the name of the violated constraint, if one was violated, and a
\* message; `code` is the condition the database reported, which
\* into_response does not read. Other errors (RowNotFound, PoolTimedOut)
\* carry neither.
DbError(code, constraint, message) ==
    [database |-> TRUE, code |-> code, constraint |-> constraint, message |-> message]
RowNotFound ==
    [database |-> FALSE, code |-> "none", constraint |-> None,
     message |-> <<"n", "o", " ", "r", "o", "w", "s", " ", "r", "e", "t", "u", "r", "n", "e", "d">>]
PoolTimedOut ==
    [database |-> FALSE, code |-> "none", constraint |-> None,
     message |-> <<"p", "o", "o", "l", " ", "t", "i", "m", "e", "d", " ", "o", "u", "t">>]

\* AppError::Database(#[from] sqlx::Error)
DatabaseError(err) == [kind |-> "Database", err |-> err]
InternalError == [kind |-> "InternalError", detail |-> ""]

Ok(v) == [ok |-> TRUE, value |-> v]
Err(e) == [ok |-> FALSE, value |-> e]

\* A mutant of into_response: every database error is an internal failure.
into_response_opaque(e) ==
    CASE e.kind = "Database" -> [status |-> 500, error |-> "Internal server error"]
      [] e.kind = "TaskNotFound" -> [status |-> 404, error |-> "Task not found"]
      [] e.kind = "InvalidInput" -> [status |-> 400, error |-> e.detail]
      [] e.kind = "InternalError" -> [status |-> 500, error |-> "Internal server error"]

\* AppError::into_response: the HTTP status and the error text.
into_response(e) ==
    CASE e.kind = "Database" ->
            IF /\ e.err.database
               /\ IsSome(e.err.constraint)
               /\ \/ contains(Unwrap(e.err.constraint), <<"c", "h", "e", "c", "k">>)
                  \/ contains(Unwrap(e.err.constraint), <<"l", "e", "n", "g", "t", "h">>)
            THEN [status |-> 400, error |-> "Invalid input: constraint violation"]
            ELSE IF e.err.database /\ contains(e.err.message, <<"v", "a", "l", "u", "e", " ", "t", "o", "o", " ", "l", "o", "n", "g">>)
            THEN [status |-> 400, error |-> "Input value exceeds maximum length"]
            ELSE [status |-> 500, error |-> "Internal server error"]
      [] e.kind = "TaskNotFound" -> [status |-> 404, error |-> "Task not found"]
      [] e.kind = "InvalidInput" -> [status |-> 400, error |-> e.detail]
      [] e.kind = "InternalError" -> [status |-> 500, error |-> "Internal server error"]

(***************************************************************************)
(* backend/src/database.rs                                                 *)
(***************************************************************************)
\* SQL COALESCE over two nullable values.
COALESCE(a, b) == IF a # None THEN a ELSE b

\* SELECT ... FROM tasks WHERE id = $1, fetch_optional.
get_task_by_id(id) ==
    IF id \in DOMAIN rows /\ IsSome(rows[id]) THEN Ok(Unwrap(rows[id])) ELSE Err(TaskNotFound)

\* A mutant of UpdateRow: an absent description clears the stored one.
UpdateRowClearing(row, request, now) ==
    [row EXCEPT
        !.title = Unwrap(COALESCE(request.title, Some(row.title))),
        !.description = request.description,
        !.status = Unwrap(COALESCE(request.status, Some(row.status))),
        !.priority = Unwrap(COALESCE(request.priority, Some(row.priority))),
        !.due_date = COALESCE(request.due_date, row.due_date),
        !.updated_at = now]

\* A mutant of UpdateRow: COALESCE with its arguments swapped, so that a
\* stored value wins over the request's (title, status and priority are
\* never NULL and so never change).
UpdateRowStoredWins(row, request, now) ==
    [row EXCEPT
        !.title = Unwrap(COALESCE(Some(row.title), request.title)),
        !.description = COALESCE(row.description, request.description),
        !.status = Unwrap(COALESCE(Some(row.status), request.status)),
        !.priority = Unwrap(COALESCE(Some(row.priority), request.priority)),
        !.due_date = COALESCE(row.due_date, request.due_date),
        !.updated_at = now]

\* A mutant of UpdateRow: the statement stamps created_at as well.
UpdateRowRestamped(row, request, now) ==
    [row EXCEPT
        !.title = Unwrap(COALESCE(request.title, Some(row.title))),
        !.description = COALESCE(request.description, row.description),
        !.status = Unwrap(COALESCE(request.status, Some(row.status))),
        !.priority = Unwrap(COALESCE(request.priority, Some(row.priority))),
        !.due_date = COALESCE(request.due_date, row.due_date),
        !.created_at = now,
        !.updated_at = now]

\* A mutant of UpdateRow: due_date is bound without COALESCE.
UpdateRowDueDateSet(row, request, now) ==
    [row EXCEPT
        !.title = Unwrap(COALESCE(request.title, Some(row.title))),
        !.description = COALESCE(request.description, row.description),
        !.status = Unwrap(COALESCE(request.status, Some(row.status))),
        !.priority = Unwrap(COALESCE(request.priority, Some(row.priority))),
        !.due_date = request.due_date,
        !.updated_at = now]

\* The SET clause of the UPDATE statement, applied to the row as it is stored
\* when the statement runs.
UpdateRow(row, request, now) ==
    [row EXCEPT
        !.title = Unwrap(COALESCE(request.title, Some(row.title))),
        !.description = COALESCE(request.description, row.description),
        !.status = Unwrap(COALESCE(request.status, Some(row.status))),
        !.priority = Unwrap(COALESCE(request.priority, Some(row.priority))),
        !.due_date = COALESCE(request.due_date, row.due_date),
        !.updated_at = now]

\* A mutant of WrittenRow: the merge is made over the row that the existence
\* check read, and the result written back whole.
WrittenRowFromSnapshot(c, cur) == UpdateRow(Unwrap(c.existing), c.request, c.now)

\* The row the UPDATE statement of call c writes over the stored row cur:
\* the binds are the request's fields and the `now` taken after the check;
\* the row read by the check (_existing_task) is not used.
WrittenRow(c, cur) == UpdateRow(cur, c.request, c.now)

Idle ==
    [pc |-> "idle", id |-> 0, request |-> EmptyRequest, existing |-> None,
     now |-> 0, overlap |-> None, several |-> FALSE]

NoCall ==
    [op |-> "none", id |-> 0, request |-> EmptyRequest, existing |-> None,
     before |-> None, overlap |-> None, several |-> FALSE, result |-> Ok(None)]

\* A mutant of update_task_select: without the existence check, as an upsert
\* (a missing row is inserted with the request's fields over the defaults).
update_task_upsert(p, id, request) ==
    /\ calls[p].pc = "idle"
    /\ LET found == get_task_by_id(id) IN
       IF found.ok
       THEN /\ calls' = [calls EXCEPT ![p] =
                    [pc |-> "selected", id |-> id, request |-> request,
                     existing |-> Some(found.value), now |-> clock, overlap |-> None,
                     several |-> FALSE]]
            /\ last' = NoCall
            /\ UNCHANGED rows
       ELSE LET new == UpdateRow(Task(id, "", None, "Todo", "Medium", None, clock, clock),
                                 request, clock)
            IN /\ rows' = [rows EXCEPT ![id] = Some(new)]
               /\ last' = [NoCall EXCEPT !.op = "update_task", !.id = id,
                                         !.request = request, !.result = Ok(new)]
               /\ UNCHANGED calls
    /\ UNCHANGED clock

\* update_task up to the await of the UPDATE: the existence check
\* (get_task_by_id) and Utc::now().
update_task_select(p, id, request) ==
    /\ calls[p].pc = "idle"
    /\ LET found == get_task_by_id(id) IN
       IF found.ok
       THEN /\ calls' = [calls EXCEPT ![p] =
                    [pc |-> "selected", id |-> id, request |-> request,
                     existing |-> Some(found.value), now |-> clock, overlap |-> None,
                     several |-> FALSE]]
            /\ last' = NoCall
            /\ UNCHANGED rows
       ELSE /\ last' = [NoCall EXCEPT !.op = "update_task", !.id = id,
                                      !.request = request, !.result = Err(found.value)]
            /\ UNCHANGED <<rows, calls>>
    /\ UNCHANGED clock

\* update_task from the UPDATE ... RETURNING statement (fetch_one) to the
\* return: one statement, atomic in the database.
update_task_write(p) ==
    LET c == calls[p]
        cur == rows[c.id]
        others == {q \in Procs \ {p} : calls[q].pc = "selected" /\ calls[q].id = c.id}
    IN
    /\ c.pc = "selected"
    /\ IF IsSome(cur)
       THEN LET new == WrittenRow(c, Unwrap(cur)) IN
            /\ rows' = [rows EXCEPT ![c.id] = Some(new)]
            /\ last' = [op |-> "update_task", id |-> c.id,
                        request |-> c.request, existing |-> c.existing, before |-> cur,
                        overlap |-> c.overlap, several |-> c.several,
                        result |-> Ok(new)]
            /\ calls' = [q \in Procs |->
                            IF q = p THEN Idle
                            ELSE IF q \in others
                                 THEN [calls[q] EXCEPT !.overlap = Some(c.request),
                                                       !.several = IsSome(calls[q].overlap)]
                                 ELSE calls[q]]
       ELSE \* fetch_one finds no row: sqlx::Error::RowNotFound, through `?`
            /\ last' = [op |-> "update_task", id |-> c.id,
                        request |-> c.request, existing |-> c.existing, before |-> cur,
                        overlap |-> c.overlap, several |-> c.several,
                        result |-> Err(DatabaseError(RowNotFound))]
            /\ calls' = [calls EXCEPT ![p] = Idle]
            /\ UNCHANGED rows
    /\ UNCHANGED clock

\* A mutant of delete_task: without the rows_affected test.
delete_task_unchecked(p, id) ==
    /\ calls[p].pc = "idle"
    /\ last' = [NoCall EXCEPT !.op = "delete_task", !.id = id,
                              !.before = IF id \in DOMAIN rows THEN rows[id] ELSE None]
    /\ rows' = [i \in DOMAIN rows |-> IF i = id THEN None ELSE rows[i]]
    /\ UNCHANGED <<clock, calls>>

\* delete_task: one DELETE statement, then the rows_affected test.
delete_task(p, id) ==
    /\ calls[p].pc = "idle"
    /\ LET rows_affected == IF id \in DOMAIN rows /\ IsSome(rows[id]) THEN 1 ELSE 0 IN
       IF rows_affected = 0
       THEN /\ last' = [NoCall EXCEPT !.op = "delete_task", !.id = id,
                                      !.result = Err(TaskNotFound)]
            /\ UNCHANGED rows
       ELSE /\ last' = [NoCall EXCEPT !.op = "delete_task", !.id = id,
                                      !.before = rows[id]]
            /\ rows' = [rows EXCEPT ![id] = None]
    /\ UNCHANGED <<clock, calls>>

\* Time passes.
Tick ==
    /\ clock < MaxClock
    /\ clock' = clock + 1
    /\ last' = NoCall
    /\ UNCHANGED <<rows, calls>>
    /\ UNCHANGED <<boardVars, wire, view, limiter>>

InitialTask == Task(1, "a", Some("d0"), "Todo", "Medium", Some(1), 0, 0)

\* The browser before the page is opened.
NoClient == [tasks |-> <<>>]
NoUser == [dragged |-> None]
Nothing ==
    [kind |-> "none", id |-> 0, status |-> "", ok |-> TRUE, kept |-> "",
     refresh |-> "none"]

\* Nothing is on the wire.
NoWire == [op |-> "none"]
\* No columns are computed, and no RateLimiter is constructed.
NoView == [op |-> "none"]
NoLimiter == [op |-> "none"]

StoreInit ==
    /\ wire = NoWire
    /\ view = NoView
    /\ limiter = NoLimiter
    /\ client = NoClient
    /\ user = NoUser
    /\ just = Nothing
    /\ rows = [id \in Ids |-> IF id = 1 THEN Some(InitialTask) ELSE None]
    /\ clock = 0
    /\ calls = [p \in Procs |-> Idle]
    /\ last = NoCall

UpdateSelect ==
    /\ \E p \in Procs, id \in Ids, request \in UpdateRequests :
          update_task_select(p, id, request)
    /\ UNCHANGED <<boardVars, wire, view, limiter>>

UpdateWrite ==
    /\ \E p \in Procs : update_task_write(p)
    /\ UNCHANGED <<boardVars, wire, view, limiter>>

Delete ==
    /\ \E p \in Procs, id \in Ids : delete_task(p, id)
    /\ UNCHANGED <<boardVars, wire, view, limiter>>

StoreNext == UpdateSelect \/ UpdateWrite \/ Delete \/ Tick

SpecStore == StoreInit /\ [][StoreNext]_vars

(***************************************************************************)
(* Properties of the Task Store                                            *)
(***************************************************************************)
Present(request) == {f \in Fields : request[f] # None}
Disjoint(r1, r2) == Present(r1) \cap Present(r2) = {}

UpdateDone == last.op = "update_task" /\ IsSome(last.before)

\* C1: an update of a task that is stored when the UPDATE runs succeeds,
\* whatever the request (all fields absent included); the task it returns is
\* the task it stores, and each of title, description, status, priority and
\* due_date holds the request's value when the field is present and the value
\* stored before when it is absent; id and created_at are as before.
C1_UpdateMergesFields ==
    UpdateDone =>
        /\ last.result.ok
        /\ rows[last.id] = Some(last.result.value)
        /\ \A f \in Fields :
              Column(last.result.value, f) =
                 IF last.request[f] # None THEN last.request[f]
                 ELSE Column(Unwrap(last.before), f)
        /\ last.result.value.id = Unwrap(last.before).id
        /\ last.result.value.created_at = Unwrap(last.before).created_at

\* A partial update has completed: the status was present and changed, the
\* description was absent and stored.
C1_Witness ==
    /\ UpdateDone
    /\ last.request = StatusRequest("InProgress")
    /\ Unwrap(last.before).status = "Todo"
    /\ IsSome(Unwrap(last.before).description)
    /\ last.result.ok

\* C2: update(id, request) is atomic with respect to a concurrent delete(id):
\* it returns the merged task, which is then stored, or it fails with
\* NotFound; it yields no other error and leaves no row behind after a delete.
C2_UpdateAtomicWithDelete ==
    last.op = "update_task" =>
        \/ /\ last.result.ok
           /\ rows[last.id] = Some(last.result.value)
        \/ /\ ~last.result.ok
           /\ last.result.value.kind = "TaskNotFound"
           /\ into_response(last.result.value).status = 404
           /\ rows[last.id] = None

\* C9: when an update commits on a task on which another update committed
\* after the first had begun, it is accepted like the earlier one, and every
\* field that both requests set holds the value of the one that committed
\* last.
C9_LastCommitWins ==
    (UpdateDone /\ IsSome(last.overlap)) =>
        /\ last.result.ok
        /\ \A f \in Present(last.request) \cap Present(Unwrap(last.overlap)) :
              Column(Unwrap(rows[last.id]), f) = last.request[f]

\* Two overlapping updates have both committed and set a common field to
\* different values.
C9_Witness ==
    /\ UpdateDone
    /\ IsSome(last.overlap)
    /\ last.result.ok
    /\ \E f \in Present(last.request) \cap Present(Unwrap(last.overlap)) :
          last.request[f] # Unwrap(last.overlap)[f]

ConcurrentDisjoint ==
    /\ UpdateDone
    /\ last.result.ok
    /\ IsSome(last.overlap)
    /\ ~last.several
    /\ Disjoint(last.request, Unwrap(last.overlap))

\* C10 as stated: when two concurrent updates set disjoint fields, the final
\* row is the later-committed update's own merge result (its request merged
\* over the row it read), so the earlier update's field change is dropped.
C10_LaterMergeReplacesRow ==
    ConcurrentDisjoint =>
        rows[last.id] =
            Some(UpdateRow(Unwrap(last.existing), last.request,
                           last.result.value.updated_at))

\* C10 as amended: when two concurrent updates set disjoint fields, the final
\* row holds the later update's values in the fields it set, the earlier
\* update's values in the fields that one set, and the values stored before
\* in the others: both field changes are kept.
C10_BothChangesKept ==
    ConcurrentDisjoint =>
        \A f \in Fields :
            Column(Unwrap(rows[last.id]), f) =
               IF last.request[f] # None THEN last.request[f]
               ELSE IF Unwrap(last.overlap)[f] # None THEN Unwrap(last.overlap)[f]
               ELSE Column(Unwrap(last.existing), f)

\* Two concurrent updates with disjoint fields have committed, each changing
\* a value.
C10_Witness ==
    /\ ConcurrentDisjoint
    /\ \E f \in Present(Unwrap(last.overlap)) :
          Unwrap(last.overlap)[f] # Column(Unwrap(last.existing), f)
    /\ \E f \in Present(last.request) :
          last.request[f] # Column(Unwrap(last.existing), f)

\* C11 (with "not smaller" for "strictly greater", which the claim implies):
\* a successful update leaves a stored updated_at that is not smaller than the
\* updated_at stored immediately before the update committed, in every
\* interleaving of updates of the same task.
C11_UpdatedAtNeverDecreases ==
    (UpdateDone /\ last.result.ok) =>
        Unwrap(rows[last.id]).updated_at >= Unwrap(last.before).updated_at

\* C12: an update of an id that has no row when the call is made fails with
\* NotFound, whatever the request, and the step changes no row.
C12_UpdateOfMissingRow ==
    [][\A id \in Ids :
          (/\ rows[id] = None
           /\ last'.op = "update_task"
           /\ last'.id = id
           /\ last'.existing = None) =>
              /\ last'.result = Err(TaskNotFound)
              /\ into_response(last'.result.value).status = 404
              /\ rows' = rows]_vars

\* An update carrying fields has just failed on an id without a row.
C12_Witness ==
    /\ last.op = "update_task"
    /\ last.existing = None
    /\ Present(last.request) # {}
    /\ rows[last.id] = None
    /\ last.result = Err(TaskNotFound)

\* C18: no step changes the id or the created_at of a task that stays
\* stored, and the task an update returns has the id and the created_at that
\* were stored before it.
C18_IdAndCreatedAtKept ==
    [][/\ \A id \in DOMAIN rows :
             (IsSome(rows[id]) /\ IsSome(rows'[id])) =>
                 /\ Unwrap(rows'[id]).id = Unwrap(rows[id]).id
                 /\ Unwrap(rows'[id]).created_at = Unwrap(rows[id]).created_at
       /\ (last'.op = "update_task" /\ last'.result.ok) =>
             /\ last'.result.value.id = last'.id
             /\ last'.result.value.created_at = Unwrap(rows[last'.id]).created_at]_vars

\* An update has committed at a time later than the task's creation.
C18_Witness ==
    /\ UpdateDone
    /\ last.result.ok
    /\ Present(last.request) # {}
    /\ last.result.value.updated_at > last.result.value.created_at
    /\ last.result.value.created_at = Unwrap(last.before).created_at

\* C19: while a task stays stored, a due_date that holds a value keeps
\* holding one, and so does a description: no update makes it absent.
C19_AbsentNeverClears ==
    [][\A id \in DOMAIN rows :
          (IsSome(rows[id]) /\ IsSome(rows'[id])) =>
              /\ IsSome(Unwrap(rows[id]).due_date) => IsSome(Unwrap(rows'[id]).due_date)
              /\ IsSome(Unwrap(rows[id]).description) =>
                    IsSome(Unwrap(rows'[id]).description)]_vars

\* An update without due_date and description has committed on a task that
\* holds both.
C19_Witness ==
    /\ UpdateDone
    /\ last.result.ok
    /\ last.request.due_date = None
    /\ last.request.description = None
    /\ IsSome(Unwrap(last.before).due_date)
    /\ IsSome(Unwrap(last.before).description)
    /\ Unwrap(rows[last.id]).due_date = Unwrap(last.before).due_date

(***************************************************************************)
(* The board: bounds                                                       *)
(***************************************************************************)
\* What the user and the other clients do, in all: drag gestures, tasks
\* created through the TaskForm, clicks on Retry, and writes by other clients.
MaxActs == 2

\* Ids of the tasks stored when the page is opened; the TaskForm creates the
\* ids that follow.
BoardIds == {1, 2}
AllBoardIds == 1..(Cardinality(BoardIds) + MaxActs)

\* The statuses another client writes.
OtherStatuses == {"Completed"}
\* Columns the user drops cards on.
DropStatuses == {"InProgress", "Completed"}
\* Tasks the other clients write.
OtherIds == {1}

(***************************************************************************)
(* backend/src/database.rs, handlers.rs: create and list                   *)
(***************************************************************************)
CreateTaskRequest(title, description, priority, due_date) ==
    [title |-> title, description |-> description, priority |-> priority,
     due_date |-> due_date]

TaskFilter(status, priority, due_before, due_after) ==
    [status |-> status, priority |-> priority, due_before |-> due_before,
     due_after |-> due_after]

\* A mutant of CreatedRow: the priority column is left to its default.
CreatedRowDefaultPriority(id, request, now) ==
    Task(id, request.title, request.description, "Todo", "Medium",
         request.due_date, now, now)

\* A mutant of CreatedRow: created_at is left to the database (the time of the
\* INSERT) while updated_at is bound to the `now` read before it.
CreatedRowStampedByInsert(id, request, now) ==
    Task(id, request.title, request.description, "Todo", request.priority,
         request.due_date, clock, now)

\* The row create_task inserts.
CreatedRow(id, request, now) ==
    Task(id, request.title, request.description, "Todo", request.priority,
         request.due_date, now, now)

\* A mutant of Matches: the due date bounds are inclusive.
MatchesInclusive(task, filter) ==
    LET status_match == filter.status = None \/ task.status = Unwrap(filter.status)
        priority_match == filter.priority = None \/ task.priority = Unwrap(filter.priority)
        due_before_match ==
            filter.due_before = None
            \/ (IsSome(task.due_date) /\ Unwrap(task.due_date) <= Unwrap(filter.due_before))
        due_after_match ==
            filter.due_after = None
            \/ (IsSome(task.due_date) /\ Unwrap(task.due_date) >= Unwrap(filter.due_after))
    IN status_match /\ priority_match /\ due_before_match /\ due_after_match

\* A mutant of Matches: a task without a due date passes the due date
\* predicates (is_none_or in place of is_some_and).
MatchesAbsentDue(task, filter) ==
    LET status_match == filter.status = None \/ task.status = Unwrap(filter.status)
        priority_match == filter.priority = None \/ task.priority = Unwrap(filter.priority)
        due_before_match ==
            filter.due_before = None
            \/ (task.due_date = None \/ Unwrap(task.due_date) < Unwrap(filter.due_before))
        due_after_match ==
            filter.due_after = None
            \/ (task.due_date = None \/ Unwrap(task.due_date) > Unwrap(filter.due_after))
    IN status_match /\ priority_match /\ due_before_match /\ due_after_match

\* A mutant of Matches: an absent status predicate matches no task
\* (is_some_and in place of is_none_or).
MatchesAbsentStatus(task, filter) ==
    LET status_match == IsSome(filter.status) /\ task.status = Unwrap(filter.status)
        priority_match == filter.priority = None \/ task.priority = Unwrap(filter.priority)
        due_before_match ==
            filter.due_before = None
            \/ (IsSome(task.due_date) /\ Unwrap(task.due_date) < Unwrap(filter.due_before))
        due_after_match ==
            filter.due_after = None
            \/ (IsSome(task.due_date) /\ Unwrap(task.due_date) > Unwrap(filter.due_after))
    IN status_match /\ priority_match /\ due_before_match /\ due_after_match

\* The filter closure of get_tasks.
Matches(task, filter) ==
    LET status_match == filter.status = None \/ task.status = Unwrap(filter.status)
        priority_match == filter.priority = None \/ task.priority = Unwrap(filter.priority)
        due_before_match ==
            filter.due_before = None
            \/ (IsSome(task.due_date) /\ Unwrap(task.due_date) < Unwrap(filter.due_before))
        due_after_match ==
            filter.due_after = None
            \/ (IsSome(task.due_date) /\ Unwrap(task.due_date) > Unwrap(filter.due_after))
    IN status_match /\ priority_match /\ due_before_match /\ due_after_match

\* A mutant of OrderByCreatedAtDesc: ORDER BY created_at ASC.
RECURSIVE OrderByCreatedAtAsc(_)
OrderByCreatedAtAsc(S) ==
    IF S = {} THEN <<>>
    ELSE LET t == CHOOSE t \in S : \A u \in S : u.created_at >= t.created_at
         IN <<t>> \o OrderByCreatedAtAsc(S \ {t})

\* ORDER BY created_at DESC.
RECURSIVE OrderByCreatedAtDesc(_)
OrderByCreatedAtDesc(S) ==
    IF S = {} THEN <<>>
    ELSE LET t == CHOOSE t \in S : \A u \in S : u.created_at <= t.created_at
         IN <<t>> \o OrderByCreatedAtDesc(S \ {t})

SelectTasks ==
    OrderByCreatedAtDesc({Unwrap(rows[id]) : id \in {i \in DOMAIN rows : IsSome(rows[i])}})

get_tasks(filter) ==
    IF IsSome(filter)
    THEN SelectSeq(SelectTasks, LAMBDA task : Matches(task, Unwrap(filter)))
    ELSE SelectTasks

\* handlers::list_tasks for a request without query parameters.
list_tasks == get_tasks(Some(TaskFilter(None, None, None, None)))

\* Database::update_task run to its end with no other statement in between.
update_task(id, request) ==
    LET found == get_task_by_id(id) IN
    IF found.ok
    THEN Ok(WrittenRow([Idle EXCEPT !.id = id, !.request = request,
                                    !.existing = Some(found.value), !.now = clock],
                       found.value))
    ELSE found

(***************************************************************************)
(* frontend: requests in flight                                            *)
(***************************************************************************)
Put(bag, e) == bag (+) SetToBag({e})
Take(bag, e) == bag (-) SetToBag({e})

\* The client record holds the signals of HomePage (tasks, is_loading, error,
\* refresh_debounce) and of the TaskList on the page (dragging_task_id), the
\* requests in flight and the pending timers. The signals show_modal,
\* filter_priority and drag_over_status only select what is drawn and are left
\* out: no handler below reads them.

\* A dispatch of load_tasks (api::fetch_tasks(None)). cause and for say who
\* dispatched it: the mount effect, the TaskForm, Retry, or the failed update
\* of task `for`.
Load(cause, for) ==
    [stage |-> "sent", cause |-> cause, for |-> for, ok |-> TRUE, tasks |-> <<>>]

\* A dispatch of update_task_action. live: the TaskList that dispatched it is
\* still the one on the page. kept records what became of the optimistic
\* status since: "shown", "interfered" (the list was replaced by a refresh
\* that the failed update of another task asked for) or "replaced" (by
\* another refresh or by a later drop of the same task).
Update(id, request) ==
    [id |-> id, request |-> request, live |-> TRUE, stage |-> "sent", ok |-> TRUE,
     kept |-> "shown"]

\* The bag with each element e replaced by f[e].
RECURSIVE SumCounts(_, _)
SumCounts(bag, E) ==
    IF E = {} THEN 0
    ELSE LET e == CHOOSE e \in E : TRUE IN bag[e] + SumCounts(bag, E \ {e})

MapBag(bag, f) ==
    LET S == BagToSet(bag)
    IN [t \in {f[e] : e \in S} |-> SumCounts(bag, {e \in S : f[e] = t})]

(***************************************************************************)
(* frontend/src/pages/home.rs                                              *)
(***************************************************************************)
\* The TaskList shows when HomePage is neither loading nor showing an error.
Mounted(c) == ~c.is_loading /\ c.error = None

\* The view closure of HomePage runs again: the TaskList on the page, with
\* its signals (TaskListSignals::new), its update action and its effect, is
\* discarded, and a new one is created if the list shows.
NewTaskList(c) ==
    [c EXCEPT !.dragging_task_id = None,
              !.drag_source = None,
              !.clear_timers = 0,
              !.updates = MapBag(@, [u \in BagToSet(@) |-> [u EXCEPT !.live = FALSE]])]

\* A mutant of refresh_tasks: the debounce flag is not tested.
refresh_tasks_undebounced(c, cause, for) ==
    NewTaskList([c EXCEPT !.refresh_debounce = TRUE,
                          !.is_loading = TRUE,
                          !.error = None,
                          !.loads = Put(@, Load(cause, for)),
                          !.debounce_timers = @ + 1])

refresh_tasks(c, cause, for) ==
    IF ~c.refresh_debounce
    THEN NewTaskList([c EXCEPT !.refresh_debounce = TRUE,
                               !.is_loading = TRUE,
                               !.error = None,
                               !.loads = Put(@, Load(cause, for)),
                               !.debounce_timers = @ + 1])
    ELSE c

\* A mutant of load_result: a failed fetch empties the list.
load_result_cleared(c, l) ==
    LET c1 == [c EXCEPT !.is_loading = FALSE,
                        !.loads = Take(@, l)]
    IN NewTaskList(IF l.ok
                   THEN [c1 EXCEPT !.tasks = l.tasks, !.error = None]
                   ELSE [c1 EXCEPT !.tasks = <<>>, !.error = Some("error")])

\* The effect on load_tasks.value(), for the result of load l.
load_result(c, l) ==
    LET c1 == [c EXCEPT !.is_loading = FALSE,
                        !.loads = Take(@, l)]
    IN NewTaskList(IF l.ok
                   THEN [c1 EXCEPT !.tasks = l.tasks, !.error = None]
                   ELSE [c1 EXCEPT !.error = Some("error")])

(***************************************************************************)
(* frontend/src/components/task_list.rs, card.rs                           *)
(***************************************************************************)
ColumnStatuses == {"Todo", "InProgress", "Completed"}

\* The ids of the cards on the board (no priority filter is set).
Cards(c) ==
    {c.tasks[i].id : i \in {j \in 1..Len(c.tasks) : c.tasks[j].status \in ColumnStatuses}}

\* A mutant of handle_drop: the update is dispatched without the optimistic
\* change of the local list.
handle_drop_unapplied(c, status, task_id) ==
    [c EXCEPT !.updates = Put(@, Update(task_id, StatusRequest(status)))]

\* A mutant of handle_drop: the dropped task is also moved to the end of the
\* list.
handle_drop_moved(c, status, task_id) ==
    LET found == {i \in 1..Len(c.tasks) : c.tasks[i].id = task_id}
        first == CHOOSE i \in found : \A j \in found : i <= j
    IN [c EXCEPT !.tasks = IF found = {} THEN @
                           ELSE SelectSeq(@, LAMBDA t : t.id # task_id)
                                \o <<[@[first] EXCEPT !.status = status]>>,
                 !.updates = Put(@, Update(task_id, StatusRequest(status)))]

handle_drop(c, status, task_id) ==
    LET found == {i \in 1..Len(c.tasks) : c.tasks[i].id = task_id}
        first == CHOOSE i \in found : \A j \in found : i <= j
    IN [c EXCEPT !.tasks = IF found = {} THEN @ ELSE [@ EXCEPT ![first].status = status],
                 !.updates = Put(@, Update(task_id, StatusRequest(status)))]

\* on:drop of a column (the two handlers are the same and the inner one stops
\* propagation).
on_drop(c, status) ==
    IF IsSome(c.dragging_task_id)
    THEN [handle_drop(c, status, Unwrap(c.dragging_task_id))
            EXCEPT !.dragging_task_id = None]
    ELSE c

\* Card: on:dragstart, on:dragend, and the 50 ms timer of on:dragend.
\* drag_source is the card of the TaskList on the page on which the gesture
\* began.
on_dragstart(c, task_id) ==
    [c EXCEPT !.dragging_task_id = Some(task_id), !.drag_source = Some(task_id)]
on_dragend(c) == [c EXCEPT !.clear_timers = @ + 1, !.drag_source = None]
clear_timeout(c) == [c EXCEPT !.dragging_task_id = None, !.clear_timers = @ - 1]

\* A mutant of debounce_timeout: the timer runs out without resetting the
\* flag.
debounce_timeout_kept(c) == [c EXCEPT !.debounce_timers = @ - 1]

\* The 500 ms timer of refresh_tasks.
debounce_timeout(c) ==
    [c EXCEPT !.refresh_debounce = FALSE, !.debounce_timers = @ - 1]

\* The effect of TaskList on update_task_action.value(), for the result of
\* update u.
update_result(c, u) ==
    IF u.ok THEN c ELSE refresh_tasks(c, "revert", u.id)

(***************************************************************************)
(* The board: the page, the network, the server and the other clients      *)
(***************************************************************************)
\* What the user and the other clients have done so far.
Acts == user.drags + user.forms + user.retries + user.others

BoardTask(id) == Task(id, "a", None, "Todo", "Medium", None, id, id)

BoardInit ==
    /\ wire = NoWire
    /\ view = NoView
    /\ limiter = NoLimiter
    /\ rows = [id \in AllBoardIds |-> IF id \in BoardIds THEN Some(BoardTask(id)) ELSE None]
    /\ clock = Cardinality(AllBoardIds) + 1
    /\ calls = [p \in Procs |-> Idle]
    /\ last = NoCall
    \* HomePage is created and its mount effect has dispatched load_tasks.
    /\ client = [tasks |-> <<>>, is_loading |-> TRUE, error |-> None,
                 refresh_debounce |-> FALSE, dragging_task_id |-> None,
                 drag_source |-> None,
                 loads |-> SetToBag({Load("mount", 0)}), updates |-> EmptyBag,
                 debounce_timers |-> 0, clear_timers |-> 0]
    /\ user = [dragged |-> None, drags |-> 0, forms |-> 0,
               retries |-> 0, others |-> 0, owed |-> {}, failed |-> FALSE]
    /\ just = Nothing

\* What the refresh trigger in client c did, c2 being the client after it.
Refreshed(c, c2) ==
    IF BagCardinality(c2.loads) > BagCardinality(c.loads) THEN "dispatched" ELSE "suppressed"

\* The user starts dragging the card of task t.
DragStart ==
    /\ Mounted(client)
    /\ user.dragged = None
    /\ Acts < MaxActs
    /\ \E t \in Cards(client) \cap BoardIds :
         /\ client' = on_dragstart(client, t)
         /\ user' = [user EXCEPT !.dragged = Some(t), !.drags = @ + 1]
    /\ just' = Nothing
    /\ UNCHANGED <<storeVars, wire, view, limiter>>

\* The user drops the dragged card on the column of status s; the browser
\* then fires dragend on the card, or not (the card may have left the page).
Drop ==
    /\ Mounted(client)
    /\ IsSome(user.dragged)
    /\ \E s \in DropStatuses, dragend \in BOOLEAN :
         LET handled == IsSome(client.dragging_task_id)
             t == IF handled THEN Unwrap(client.dragging_task_id) ELSE Unwrap(user.dragged)
             c0 == IF handled
                   THEN [client EXCEPT !.updates =
                            MapBag(@, [u \in BagToSet(@) |->
                                          IF u.id = t THEN [u EXCEPT !.kept = "replaced"]
                                          ELSE u])]
                   ELSE client
             c1 == on_drop(c0, s)
             c2 == IF dragend /\ IsSome(c1.drag_source) THEN on_dragend(c1)
                   ELSE [c1 EXCEPT !.drag_source = None]
         IN /\ client' = c2
            /\ user' = [user EXCEPT !.dragged = None,
                                    !.owed = IF handled THEN @ \ {t} ELSE @]
            /\ just' = [Nothing EXCEPT !.kind = "drop", !.id = t, !.status = s,
                                       !.ok = handled]
    /\ UNCHANGED <<storeVars, wire, view, limiter>>

\* The user releases the card outside the columns.
DragCancel ==
    /\ IsSome(user.dragged)
    /\ client' = IF IsSome(client.drag_source) THEN on_dragend(client) ELSE client
    /\ user' = [user EXCEPT !.dragged = None]
    /\ just' = Nothing
    /\ UNCHANGED <<storeVars, wire, view, limiter>>

ClearTimer ==
    /\ client.clear_timers > 0
    /\ client' = clear_timeout(client)
    /\ just' = Nothing
    /\ UNCHANGED <<user, storeVars, wire, view, limiter>>

DebounceTimer ==
    /\ client.debounce_timers > 0
    /\ client' = debounce_timeout(client)
    /\ just' = Nothing
    /\ UNCHANGED <<user, storeVars, wire, view, limiter>>

\* The server answers a fetch (handlers::list_tasks), or the request fails.
ServeLoad ==
    /\ \E l \in BagToSet(client.loads), net_ok \in BOOLEAN :
         /\ l.stage = "sent"
         /\ client' = [client EXCEPT !.loads =
                Put(Take(@, l), [l EXCEPT !.stage = "done", !.ok = net_ok,
                                          !.tasks = IF net_ok THEN list_tasks ELSE <<>>])]
    /\ just' = Nothing
    /\ UNCHANGED <<user, storeVars, wire, view, limiter>>

\* The result of a fetch reaches the page.
LoadResult ==
    /\ \E l \in BagToSet(client.loads) :
         /\ l.stage = "done"
         /\ LET c1 == load_result(client, l)
                Mark(u) == IF ~l.ok THEN u
                           ELSE IF l.cause = "revert" /\ l.for # u.id /\ u.kept # "replaced"
                                THEN [u EXCEPT !.kept = "interfered"]
                                ELSE [u EXCEPT !.kept = "replaced"]
            IN client' = [c1 EXCEPT !.updates = MapBag(@, [u \in BagToSet(@) |-> Mark(u)])]
         /\ user' = [user EXCEPT !.owed = IF l.ok THEN {} ELSE @]
         /\ just' = [Nothing EXCEPT !.kind = "loaded", !.ok = l.ok]
    /\ UNCHANGED <<storeVars, wire, view, limiter>>

\* The server runs handlers::update_task for a dispatched update, or the
\* request is lost on the way.
ServeUpdate ==
    /\ \E u \in BagToSet(client.updates), net \in {"ok", "lost"} :
         /\ u.stage = "sent"
         /\ LET result == IF net = "lost" THEN Err(TaskNotFound)
                          ELSE update_task(u.id, u.request)
            IN /\ rows' = IF result.ok
                          THEN [rows EXCEPT ![u.id] = Some(result.value)]
                          ELSE rows
               /\ client' = [client EXCEPT !.updates =
                      Put(Take(@, u), [u EXCEPT !.stage = "done",
                                                !.ok = result.ok])]
    /\ just' = Nothing
    /\ UNCHANGED <<user, clock, calls, last, wire, view, limiter>>

\* The result of an update reaches the page. The effect of the TaskList that
\* dispatched it runs; whether it still runs once that TaskList has been
\* discarded is left open.
UpdateResult ==
    /\ \E u \in BagToSet(client.updates), runs \in BOOLEAN :
         /\ u.stage = "done"
         /\ u.live => runs
         /\ LET c1 == [client EXCEPT !.updates = Take(@, u)]
                c2 == IF runs THEN update_result(c1, u) ELSE c1
            IN /\ client' = c2
               /\ just' = [kind |-> "resolved", id |-> u.id,
                           status |-> Unwrap(u.request.status), ok |-> u.ok,
                           kept |-> u.kept,
                           refresh |-> IF runs /\ ~u.ok THEN Refreshed(c1, c2) ELSE "none"]
         /\ user' = [user EXCEPT !.failed = @ \/ ~u.ok,
                                 !.owed = IF ~u.ok /\ u.kept = "shown" THEN @ \cup {u.id}
                                          ELSE @]
    /\ UNCHANGED <<storeVars, wire, view, limiter>>

\* The TaskForm has created a task: create_task on the server, then on_submit.
FormCreated ==
    /\ Acts < MaxActs
    /\ LET id == Cardinality(BoardIds) + user.forms + 1
           c2 == refresh_tasks(client, "form", 0)
       IN /\ rows' = [rows EXCEPT ![id] =
                 Some(CreatedRow(id, CreateTaskRequest("n", None, "Medium", None), clock))]
          /\ client' = c2
          /\ just' = [Nothing EXCEPT !.kind = "form", !.refresh = Refreshed(client, c2)]
    /\ user' = [user EXCEPT !.forms = @ + 1]
    /\ UNCHANGED <<clock, calls, last, wire, view, limiter>>

\* The user clicks Retry on the error panel.
Retry ==
    /\ ~client.is_loading
    /\ IsSome(client.error)
    /\ Acts < MaxActs
    /\ LET c2 == refresh_tasks(client, "retry", 0)
       IN /\ client' = c2
          /\ just' = [Nothing EXCEPT !.kind = "retry", !.refresh = Refreshed(client, c2)]
    /\ user' = [user EXCEPT !.retries = @ + 1]
    /\ UNCHANGED <<storeVars, wire, view, limiter>>

\* Another client changes the status of a task, or deletes it.
OtherUpdate ==
    /\ Acts < MaxActs
    /\ \E id \in OtherIds, status \in OtherStatuses :
         LET result == update_task(id, StatusRequest(status))
         IN /\ result.ok
            /\ rows' = [rows EXCEPT ![id] = Some(result.value)]
    /\ user' = [user EXCEPT !.others = @ + 1]
    /\ just' = Nothing
    /\ UNCHANGED <<client, clock, calls, last, wire, view, limiter>>

OtherDelete ==
    /\ Acts < MaxActs
    /\ \E id \in OtherIds :
         /\ IsSome(rows[id])
         /\ rows' = [rows EXCEPT ![id] = None]
    /\ user' = [user EXCEPT !.others = @ + 1]
    /\ just' = Nothing
    /\ UNCHANGED <<client, clock, calls, last, wire, view, limiter>>

BoardNext ==
    \/ DragStart \/ Drop \/ DragCancel \/ ClearTimer \/ DebounceTimer
    \/ ServeLoad \/ LoadResult \/ ServeUpdate \/ UpdateResult
    \/ FormCreated \/ Retry \/ OtherUpdate \/ OtherDelete

SpecBoard == BoardInit /\ [][BoardNext]_vars

\* The board with every request answered and every timer fired: a request
\* in flight is served, its result reaches the page, and a pending timer
\* runs. The user and the other clients act or not as they please.
SpecBoardFair ==
    /\ BoardInit
    /\ [][BoardNext]_vars
    /\ WF_vars(ServeUpdate) /\ WF_vars(UpdateResult)
    /\ WF_vars(ServeLoad) /\ WF_vars(LoadResult)
    /\ WF_vars(DebounceTimer) /\ WF_vars(ClearTimer)

(***************************************************************************)
(* Properties of the board                                                 *)
(***************************************************************************)
InFlight(bag) == BagCardinality(bag)

\* The entries of the local list with id t.
Local(t) == {i \in 1..Len(client.tasks) : client.tasks[i].id = t}

\* Nothing is in flight, no timer is pending and the TaskList is on the page.
AtRest ==
    /\ Mounted(client)
    /\ InFlight(client.loads) = 0
    /\ InFlight(client.updates) = 0
    /\ client.debounce_timers = 0
    /\ client.clear_timers = 0

C4_DropDispatchesUpdate ==
    just.kind = "drop" =>
        \E u \in BagToSet(client.updates) :
            u.id = just.id /\ u.request = StatusRequest(just.status) /\ u.stage = "sent"

\* C5: in the state a handled drop of task T on column S leaves, before any
\* response to its update, every entry of the local list with id T has
\* status S.
C5_OptimisticStatusShown ==
    (just.kind = "drop" /\ just.ok) =>
        \A i \in Local(just.id) : client.tasks[i].status = just.status

C5_Witness ==
    /\ just.kind = "drop" /\ just.ok
    /\ Local(just.id) # {}
    /\ \E u \in BagToSet(client.updates) :
         u.id = just.id /\ u.request = StatusRequest(just.status) /\ u.stage = "sent"
    /\ \A i \in Local(just.id) :
         IsSome(rows[just.id]) /\ Unwrap(rows[just.id]).status # client.tasks[i].status

\* C6: when every update dispatched by a drop has succeeded, no update and no
\* fetch is in flight and no other client has written, each task of the local
\* list has the status the store holds for it. (Stated for the pages whose
\* only fetch was the one on mount: no TaskForm submit, no Retry.)
C6_LocalMatchesStore ==
    (/\ ~user.failed
     /\ InFlight(client.updates) = 0
     /\ InFlight(client.loads) = 0
     /\ user.others = 0
     /\ user.forms = 0
     /\ user.retries = 0) =>
        \A i \in 1..Len(client.tasks) :
            LET task == client.tasks[i]
            IN IsSome(rows[task.id]) /\ Unwrap(rows[task.id]).status = task.status

\* C7: the local status of task B after B's own update has resolved does not
\* depend on the outcome of the update of another task A. When B's update
\* succeeds and nothing but A's outcome has touched the list since B's drop
\* (kept is "shown", or "interfered" when the refresh that A's failure
\* triggered replaced the list), B has the status it was dropped on, as it has
\* when A's update succeeds.
C7_OtherTaskKeepsStatus ==
    (/\ just.kind = "resolved"
     /\ just.ok
     /\ just.kept \in {"shown", "interfered"}
     /\ user.others = 0) =>
        \A i \in Local(just.id) : client.tasks[i].status = just.status

\* C8 as stated: refresh_tasks dispatches no fetch while an earlier fetch that
\* refresh_tasks dispatched is in flight.
C8_NoFetchWhileRefreshInFlight ==
    [][InFlight(client'.loads) > InFlight(client.loads) =>
          \A l \in BagToSet(client.loads) : l.cause = "mount"]_vars

\* C8 (amended): refresh_tasks dispatches no fetch while the flag
\* refresh_debounce is set, that is for the 500 ms that follow the dispatch of
\* the previous refresh; whether that fetch has completed plays no part.
C8_NoFetchWhileDebounced ==
    [][InFlight(client'.loads) > InFlight(client.loads) =>
          ~client.refresh_debounce /\ client.debounce_timers = 0]_vars

\* A refresh trigger has just been suppressed while a fetch was in flight.
C8_Witness ==
    /\ just.refresh = "suppressed"
    /\ client.refresh_debounce
    /\ InFlight(client.loads) > 0

\* The list `new` is the list `old` but for the status of the entry with id
\* T, which is S: same length and order, every other entry and every other
\* field of T as before; without an entry of T the lists are equal.
StatusOnly(old, new, S, T) ==
    /\ Len(new) = Len(old)
    /\ \A i \in 1..Len(old) :
          IF old[i].id = T
          THEN new[i] = [old[i] EXCEPT !.status = S]
          ELSE new[i] = old[i]
    /\ (\A i \in 1..Len(old) : old[i].id # T) => new = old

\* C30: handle_drop(S, T) changes nothing in the local list but the status of
\* the entry with id T, and nothing at all when no entry has id T: so it is
\* for every status and every id, listed or not, on every list the board
\* comes to show, and so it is in every step in which a drop is handled.
C30_DropChangesStatusOnly ==
    /\ [](\A S \in TaskStatus, T \in AllBoardIds :
            StatusOnly(client.tasks, handle_drop(client, S, T).tasks, S, T))
    /\ [][(just'.kind = "drop" /\ just'.ok) =>
            StatusOnly(client.tasks, client'.tasks, just'.status, just'.id)]_vars

\* The first of two listed tasks has been dropped on another status: its
\* entry is still the first and the second entry is as it was.
C30_Witness ==
    /\ just.kind = "drop"
    /\ just.ok
    /\ Len(client.tasks) = 2
    /\ client.tasks[1].id = just.id
    /\ client.tasks[1].status = just.status
    /\ client.tasks[1].status # client.tasks[2].status

\* The states of a gesture on task t: its drop has just been handled
\* (the optimistic status is set and the update sent); the response has
\* been handled, as a success (Confirmed) or as a failure with the refresh
\* fetch dispatched (Reverting).
Dropped(t) == just.kind = "drop" /\ just.ok /\ just.id = t
Confirmed(t) == just.kind = "resolved" /\ just.id = t /\ just.ok
Reverting(t) ==
    just.kind = "resolved" /\ just.id = t /\ ~just.ok /\ just.refresh = "dispatched"

C31_MarkerKeptUntilDrop ==
    [][/\ (/\ IsSome(user.dragged)
            /\ client.dragging_task_id = user.dragged
            /\ client.clear_timers > 0
            /\ client' = clear_timeout(client))
           => client'.dragging_task_id = user.dragged
       /\ just'.kind = "drop" => just'.ok]_vars

\* C32: the debounce flag is set exactly when one reset timer of
\* refresh_tasks is pending, and no more than one is ever pending;
\* refresh_tasks dispatches a fetch only with the flag clear, so at most one
\* between a set and its reset; and a set flag is always reset in the end,
\* whatever becomes of the fetch.
C32_FlagIffTimerPending ==
    /\ [](client.refresh_debounce <=> client.debounce_timers = 1)
    /\ [](client.debounce_timers <= 1)
    /\ [][InFlight(client'.loads) > InFlight(client.loads) =>
            ~client.refresh_debounce]_vars
    /\ (client.refresh_debounce ~> ~client.refresh_debounce)

\* The fetch of a refresh has failed and its result has been handled while
\* the flag is still set and the timer pending.
C32_Witness ==
    /\ client.refresh_debounce
    /\ client.debounce_timers = 1
    /\ InFlight(client.loads) = 0
    /\ IsSome(client.error)

\* C33: when the result of a fetch is handled, loading is cleared; a failed
\* fetch leaves the local list as it was and records the error, a successful
\* one replaces the list by the fetched list and clears the error.
C33_FetchResultHandled ==
    [][just'.kind = "loaded" =>
          \E l \in BagToSet(client.loads) :
              /\ l.stage = "done"
              /\ l.ok = just'.ok
              /\ client'.loads = Take(client.loads, l)
              /\ ~client'.is_loading
              /\ IF l.ok
                 THEN client'.tasks = l.tasks /\ client'.error = None
                 ELSE client'.tasks = client.tasks /\ IsSome(client'.error)]_vars

\* A fetch has failed while the list shows a task with an optimistic status
\* the store does not hold: the list still shows it.
C33_Witness ==
    /\ just.kind = "loaded"
    /\ ~just.ok
    /\ IsSome(client.error)
    /\ user.others = 0
    /\ \E i \in 1..Len(client.tasks) :
          LET t == client.tasks[i]
          IN IsSome(rows[t.id]) /\ Unwrap(rows[t.id]).status # t.status

(***************************************************************************)
(* The Task Store with create, get and list                                *)
(***************************************************************************)
\* Titles are sequences of characters.
Whitespace == {" ", "\t"}

RECURSIVE trim_start(_)
trim_start(s) ==
    IF s # <<>> /\ Head(s) \in Whitespace THEN trim_start(Tail(s)) ELSE s

RECURSIVE trim_end(_)
trim_end(s) ==
    IF s # <<>> /\ s[Len(s)] \in Whitespace THEN trim_end(SubSeq(s, 1, Len(s) - 1)) ELSE s

\* A mutant of trim: the title is tested as it came.
untrimmed(s) == s

\* str::trim and str::is_empty.
trim(s) == trim_end(trim_start(s))
is_empty(s) == Len(s) = 0

InvalidInput(detail) == [kind |-> "InvalidInput", detail |-> detail]

\* The requests create_task is called with: titles that are empty, blank,
\* padded and plain.
CreateRequests ==
    { CreateTaskRequest(<<>>, None, "Medium", None),
      CreateTaskRequest(<<" ">>, Some("d"), "High", None),
      CreateTaskRequest(<<"\t", " ">>, None, "Low", Some(1)),
      CreateTaskRequest(<<" ", "a">>, Some("d"), "High", Some(1)),
      CreateTaskRequest(<<"a">>, None, "Medium", None) }

\* The update requests of the specifications below (none sets the title).
CrudUpdates == {StatusRequest("InProgress")}
ListUpdates ==
    { StatusRequest("InProgress"),
      UpdateTaskRequest(None, Some("e"), None, Some("High"), Some(2)) }

\* Tasks the listed store holds at most.
MaxTasks == 2

\* The filters get_tasks is called with: absent, empty, one predicate, all.
Filters ==
    { None,
      Some(TaskFilter(None, None, None, None)),
      Some(TaskFilter(Some("Todo"), None, None, None)),
      Some(TaskFilter(None, Some("High"), None, None)),
      Some(TaskFilter(None, None, Some(2), None)),
      Some(TaskFilter(None, None, None, Some(1))),
      Some(TaskFilter(Some("InProgress"), Some("High"), Some(3), Some(1))) }

\* handlers::create_task up to the await of the INSERT: the title test, then
\* in Database::create_task Uuid::new_v4() and Utc::now(). Uuid::new_v4() is
\* taken to return an id that no task has had; the ids are numbered in the
\* order of the INSERTs.
create_task_begin(p, request) ==
    /\ calls[p].pc = "idle"
    /\ IF is_empty(trim(request.title))
       THEN /\ last' = [NoCall EXCEPT !.op = "create_task", !.request = request,
                                      !.result = Err(InvalidInput("Title cannot be empty"))]
            /\ UNCHANGED calls
       ELSE /\ Len(rows) + Cardinality({q \in Procs : calls[q].pc = "creating"})
                  < Cardinality(Ids)
            /\ calls' = [calls EXCEPT ![p] =
                            [Idle EXCEPT !.pc = "creating", !.request = request,
                                         !.now = clock]]
            /\ last' = NoCall
    /\ UNCHANGED <<rows, clock>>

\* The INSERT ... RETURNING statement of create_task and the return.
create_task_insert(p) ==
    LET c == calls[p]
        new == CreatedRow(Len(rows) + 1, c.request, c.now)
    IN /\ c.pc = "creating"
       /\ rows' = Append(rows, Some(new))
       /\ last' = [NoCall EXCEPT !.op = "create_task", !.id = new.id,
                                 !.request = c.request, !.result = Ok(new)]
       /\ calls' = [calls EXCEPT ![p] = Idle]
       /\ UNCHANGED clock

CrudInit ==
    /\ wire = NoWire
    /\ view = NoView
    /\ limiter = NoLimiter
    /\ client = NoClient
    /\ user = NoUser
    /\ just = Nothing
    /\ rows = <<>>
    /\ clock = 0
    /\ calls = [p \in Procs |-> Idle]
    /\ last = NoCall

CreateBegin ==
    /\ \E p \in Procs, request \in CreateRequests : create_task_begin(p, request)
    /\ UNCHANGED <<boardVars, wire, view, limiter>>

CreateInsert ==
    /\ \E p \in Procs : create_task_insert(p)
    /\ UNCHANGED <<boardVars, wire, view, limiter>>

CrudUpdateSelect ==
    /\ \E p \in Procs, id \in Ids, request \in CrudUpdates :
          update_task_select(p, id, request)
    /\ UNCHANGED <<boardVars, wire, view, limiter>>

GetTask ==
    /\ \E id \in Ids :
          last' = [NoCall EXCEPT !.op = "get_task_by_id", !.id = id,
                                 !.result = get_task_by_id(id)]
    /\ UNCHANGED <<rows, clock, calls, boardVars, wire, view, limiter>>

CrudNext ==
    \/ CreateBegin \/ CreateInsert \/ CrudUpdateSelect \/ UpdateWrite \/ Delete
    \/ GetTask \/ Tick

SpecCrud == CrudInit /\ [][CrudNext]_vars

(***************************************************************************)
(* The Task Store called by one client at a time, with list                *)
(***************************************************************************)
\* create_task with a valid title, run to its end.
ListCreate ==
    /\ Len(rows) < MaxTasks
    /\ \E request \in CreateRequests :
          /\ ~is_empty(trim(request.title))
          /\ LET new == CreatedRow(Len(rows) + 1, request, clock)
             IN /\ rows' = Append(rows, Some(new))
                /\ last' = [NoCall EXCEPT !.op = "create_task", !.id = new.id,
                                          !.request = request, !.result = Ok(new)]
    /\ UNCHANGED <<clock, calls, boardVars, wire, view, limiter>>

\* update_task run to its end.
ListUpdate ==
    /\ \E id \in DOMAIN rows, request \in ListUpdates :
          LET result == update_task(id, request)
          IN /\ rows' = IF result.ok THEN [rows EXCEPT ![id] = Some(result.value)] ELSE rows
             /\ last' = [NoCall EXCEPT !.op = "update_task", !.id = id,
                                       !.request = request, !.before = rows[id],
                                       !.result = result]
    /\ UNCHANGED <<clock, calls, boardVars, wire, view, limiter>>

ListDelete ==
    /\ \E id \in DOMAIN rows : delete_task(CHOOSE p \in Procs : TRUE, id)
    /\ UNCHANGED <<boardVars, wire, view, limiter>>

ListTasks ==
    /\ \E filter \in Filters :
          last' = [NoCall EXCEPT !.op = "get_tasks", !.request = filter,
                                 !.result = Ok(get_tasks(filter))]
    /\ UNCHANGED <<rows, clock, calls, boardVars, wire, view, limiter>>

\* A mutant of health_check: the probe asks the store.
health_check_probing == IF \E id \in DOMAIN rows : IsSome(rows[id]) THEN "OK" ELSE "EMPTY"

\* main.rs health_check: the handler of GET /health.
health_check == "OK"

HealthCheck ==
    /\ last' = [NoCall EXCEPT !.op = "health_check", !.result = Ok(health_check)]
    /\ UNCHANGED <<rows, clock, calls, boardVars, wire, view, limiter>>

ListNext ==
    ListCreate \/ ListUpdate \/ ListDelete \/ ListTasks \/ HealthCheck \/ Tick

SpecList == CrudInit /\ [][ListNext]_vars

(***************************************************************************)
(* Properties of create, delete, get and list                              *)
(***************************************************************************)
Stored(id) == id \in DOMAIN rows /\ IsSome(rows[id])
\* The task with this id was created and has been deleted.
Deleted(id) == id \in DOMAIN rows /\ rows[id] = None

\* C13: delete(id) of a stored task succeeds and removes that row and no
\* other; delete(id) of an id without a row fails with NotFound and changes
\* nothing. Once a task is deleted its row stays absent, and every delete and
\* get of its id, and every update that begins then, fails with NotFound.
C13_DeleteRemovesOnce ==
    [][\A id \in Ids :
          /\ (last'.op = "delete_task" /\ last'.id = id) =>
                IF Stored(id)
                THEN /\ last'.result.ok
                     /\ rows' = [rows EXCEPT ![id] = None]
                ELSE /\ last'.result = Err(TaskNotFound)
                     /\ rows' = rows
          /\ Deleted(id) =>
                /\ rows'[id] = None
                /\ (last'.id = id /\ last'.op \in {"delete_task", "get_task_by_id"}) =>
                      last'.result = Err(TaskNotFound)
                /\ (last'.id = id /\ last'.op = "update_task" /\ last'.existing = None) =>
                      last'.result = Err(TaskNotFound)]_vars

\* A second delete of a deleted task has just failed.
C13_Witness ==
    /\ last.op = "delete_task"
    /\ Deleted(last.id)
    /\ last.result = Err(TaskNotFound)
    /\ \E id \in DOMAIN rows : Stored(id)

\* C14: a successful create adds one row and leaves the others as they were;
\* the new task has status Todo, created_at = updated_at, the request's title,
\* description, priority and due_date, and list(None) then contains it.
C14_CreateAddsOneRow ==
    [][(last'.op = "create_task" /\ last'.result.ok) =>
          LET new == last'.result.value
              listed == get_tasks(None)'
          IN /\ new.id \notin DOMAIN rows
             /\ DOMAIN rows' = DOMAIN rows \cup {new.id}
             /\ \A id \in DOMAIN rows : rows'[id] = rows[id]
             /\ rows'[new.id] = Some(new)
             /\ new.status = "Todo"
             /\ new.created_at = new.updated_at
             /\ new.title = last'.request.title
             /\ new.description = last'.request.description
             /\ new.priority = last'.request.priority
             /\ new.due_date = last'.request.due_date
             /\ \E i \in 1..Len(listed) : listed[i] = new]_vars

\* A task with a priority other than the default has been created beside a
\* stored one.
C14_Witness ==
    /\ last.op = "create_task"
    /\ last.result.ok
    /\ last.result.value.priority = "High"
    /\ IsSome(last.result.value.due_date)
    /\ \E id \in DOMAIN rows : id # last.id /\ Stored(id)

\* A title with no character other than whitespace.
Blank(title) == \A i \in 1..Len(title) : title[i] \in Whitespace

\* C15: a create whose title is empty or holds only whitespace fails with
\* InvalidInput (400) in the step that takes the request: no row is
\* persisted, no statement is pending and the store is as before.
C15_BlankTitleRejected ==
    [][(last'.op = "create_task" /\ Blank(last'.request.title)) =>
          /\ ~last'.result.ok
          /\ last'.result.value.kind = "InvalidInput"
          /\ into_response(last'.result.value).status = 400
          /\ rows' = rows
          /\ calls' = calls]_vars

\* A create with a title of whitespace has just been rejected.
C15_Witness ==
    /\ last.op = "create_task"
    /\ Len(last.request.title) > 0
    /\ Blank(last.request.title)
    /\ last.result = Err(InvalidInput("Title cannot be empty"))

\* C17: every stored task has created_at <= updated_at, in every
\* interleaving of creates and updates.
C17_CreatedBeforeUpdated ==
    \A id \in DOMAIN rows :
        Stored(id) => Unwrap(rows[id]).created_at <= Unwrap(rows[id]).updated_at

\* An update that overlapped another has committed on a created task, at a
\* time later than its creation.
C17_Witness ==
    /\ UpdateDone
    /\ last.result.ok
    /\ IsSome(last.overlap)
    /\ Unwrap(rows[last.id]).created_at < Unwrap(rows[last.id]).updated_at

\* A task satisfies every present predicate of the filter.
Satisfies(task, filter) ==
    IsSome(filter) =>
        LET f == Unwrap(filter) IN
        /\ IsSome(f.status) => task.status = Unwrap(f.status)
        /\ IsSome(f.priority) => task.priority = Unwrap(f.priority)
        /\ IsSome(f.due_before) =>
              IsSome(task.due_date) /\ Unwrap(task.due_date) < Unwrap(f.due_before)
        /\ IsSome(f.due_after) =>
              IsSome(task.due_date) /\ Unwrap(task.due_date) > Unwrap(f.due_after)

C21_DueBoundsStrict ==
    (last.op = "get_tasks" /\ IsSome(last.request)) =>
        LET f == Unwrap(last.request)
            result == last.result.value
        IN \A i \in 1..Len(result) :
              /\ IsSome(f.due_before) =>
                    /\ result[i].due_date # None
                    /\ Unwrap(result[i].due_date) # Unwrap(f.due_before)
                    /\ Unwrap(result[i].due_date) < Unwrap(f.due_before)
              /\ IsSome(f.due_after) =>
                    /\ result[i].due_date # None
                    /\ Unwrap(result[i].due_date) # Unwrap(f.due_after)
                    /\ Unwrap(result[i].due_date) > Unwrap(f.due_after)

\* list(due_before = 2) has returned nothing from a store that holds a task
\* without a due date and a task due at 2.
C21_Witness ==
    /\ last.op = "get_tasks"
    /\ last.request = Some(TaskFilter(None, None, Some(2), None))
    /\ last.result.value = <<>>
    /\ \E id \in DOMAIN rows : Stored(id) /\ Unwrap(rows[id]).due_date = None
    /\ \E id \in DOMAIN rows : Stored(id) /\ Unwrap(rows[id]).due_date = Some(2)

\* The filter in which every predicate is absent.
EmptyFilter == TaskFilter(None, None, None, None)

C23_NewestFirst ==
    last.op = "get_tasks" =>
        LET result == last.result.value
        IN \A i, j \in 1..Len(result) :
              i < j => result[i].created_at >= result[j].created_at

\* A list has returned two tasks created at different times, the older one
\* updated after the newer one was created.
C23_Witness ==
    /\ last.op = "get_tasks"
    /\ Len(last.result.value) = 2
    /\ last.result.value[1].created_at > last.result.value[2].created_at
    /\ last.result.value[2].updated_at >= last.result.value[1].created_at
    /\ last.result.value[2].updated_at > last.result.value[2].created_at

\* C29: the liveness probe answers OK in every state of the store and leaves
\* the store, the clock and the calls in progress as they were.
C29_ProbeAnswersOk ==
    [][last'.op = "health_check" =>
          /\ last'.result = Ok("OK")
          /\ rows' = rows
          /\ clock' = clock
          /\ calls' = calls]_vars

\* The probe has answered while the store holds a task and a deleted row.
C29_Witness ==
    /\ last.op = "health_check"
    /\ last.result.value = "OK"
    /\ \E id \in DOMAIN rows : Stored(id)
    /\ \E id \in DOMAIN rows : Deleted(id)

(***************************************************************************)
(* The HTTP boundary: frontend/src/api.rs, backend/src/handlers.rs and the *)
(* encodings of common/src/lib.rs                                          *)
(***************************************************************************)
\* The name of a TaskStatus variant, as derive(Debug) and derive(Serialize)
\* write it.
status_name(v) ==
    CASE v = "Todo" -> <<"T", "o", "d", "o">>
      [] v = "InProgress" -> <<"I", "n", "P", "r", "o", "g", "r", "e", "s", "s">>
      [] v = "Completed" -> <<"C", "o", "m", "p", "l", "e", "t", "e", "d">>
      [] v = "Backlog" -> <<"B", "a", "c", "k", "l", "o", "g">>

priority_name(v) ==
    CASE v = "Low" -> <<"L", "o", "w">>
      [] v = "Medium" -> <<"M", "e", "d", "i", "u", "m">>
      [] v = "High" -> <<"H", "i", "g", "h">>
      [] v = "Urgent" -> <<"U", "r", "g", "e", "n", "t">>

\* A mutant of deserialize_status: an unknown name yields the default.
deserialize_status_defaulting(text) ==
    CASE text = <<"T", "o", "d", "o">> -> Ok("Todo")
      [] text = <<"I", "n", "P", "r", "o", "g", "r", "e", "s", "s">> -> Ok("InProgress")
      [] text = <<"C", "o", "m", "p", "l", "e", "t", "e", "d">> -> Ok("Completed")
      [] text = <<"B", "a", "c", "k", "l", "o", "g">> -> Ok("Backlog")
      [] OTHER -> Ok("Todo")

\* derive(Deserialize) of TaskStatus: the variant of exactly this name, or an
\* error.
deserialize_status(text) ==
    CASE text = <<"T", "o", "d", "o">> -> Ok("Todo")
      [] text = <<"I", "n", "P", "r", "o", "g", "r", "e", "s", "s">> -> Ok("InProgress")
      [] text = <<"C", "o", "m", "p", "l", "e", "t", "e", "d">> -> Ok("Completed")
      [] text = <<"B", "a", "c", "k", "l", "o", "g">> -> Ok("Backlog")
      [] OTHER -> Err("unknown variant")

deserialize_priority(text) ==
    CASE text = <<"L", "o", "w">> -> Ok("Low")
      [] text = <<"M", "e", "d", "i", "u", "m">> -> Ok("Medium")
      [] text = <<"H", "i", "g", "h">> -> Ok("High")
      [] text = <<"U", "r", "g", "e", "n", "t">> -> Ok("Urgent")
      [] OTHER -> Err("unknown variant")

\* The types with a wire name, and the texts deserialized: every variant
\* name, names in another case, a name of the other type, other texts.
EnumTypes == {"TaskStatus", "TaskPriority"}
Variants(ty) == IF ty = "TaskStatus" THEN TaskStatus ELSE TaskPriority
serialize(ty, v) == IF ty = "TaskStatus" THEN status_name(v) ELSE priority_name(v)
deserialize(ty, text) ==
    IF ty = "TaskStatus" THEN deserialize_status(text) ELSE deserialize_priority(text)

WireTexts ==
    { <<"T", "o", "d", "o">>, <<"I", "n", "P", "r", "o", "g", "r", "e", "s", "s">>, <<"C", "o", "m", "p", "l", "e", "t", "e", "d">>, <<"B", "a", "c", "k", "l", "o", "g">>,
      <<"L", "o", "w">>, <<"M", "e", "d", "i", "u", "m">>, <<"H", "i", "g", "h">>, <<"U", "r", "g", "e", "n", "t">>,
      <<"t", "o", "d", "o">>, <<"T", "O", "D", "O">>, <<"I", "n", "v", "a", "l", "i", "d">>, <<"i", "n", "P", "r", "o", "g", "r", "e", "s", "s">>, <<"h", "i", "g", "h">>, <<"T", "o", "d", "o", " ">>, <<>> }

\* The times of the filters, and DateTime<Utc>::to_rfc3339 of a time of the
\* first seconds of the epoch.
Digits == <<"0", "1", "2", "3", "4", "5", "6", "7", "8", "9">>
to_rfc3339(t) == <<"1", "9", "7", "0", "-", "0", "1", "-", "0", "1", "T", "0", "0", ":", "0", "0", ":", "0">> \o <<Digits[t + 1]>> \o <<"+", "0", "0", ":", "0", "0">>

\* FromStr of DateTime<Utc>: a date and time followed by an offset that
\* begins with a sign, or by Z.
parse_datetime(text) ==
    LET date == <<"1", "9", "7", "0", "-", "0", "1", "-", "0", "1", "T", "0", "0", ":", "0", "0", ":", "0">>
        n == Len(date)
    IN IF /\ Len(text) > n + 1
          /\ SubSeq(text, 1, n) = date
          /\ \E t \in 0..9 : Digits[t + 1] = text[n + 1]
          /\ SubSeq(text, n + 2, Len(text)) \in {<<"+", "0", "0", ":", "0", "0">>, <<"Z">>}
       THEN Ok(CHOOSE t \in 0..9 : Digits[t + 1] = text[n + 1])
       ELSE Err("invalid date")

\* The filters fetch_tasks is called with.
WireFilters ==
    { TaskFilter(status, priority, due_before, due_after) :
        status \in {None, Some("Todo"), Some("InProgress")},
        priority \in {None, Some("High")},
        due_before \in {None, Some(1), Some(2)},
        due_after \in {None, Some(1)} }

\* fetch_tasks up to the send: the query parameters pushed for a filter, in
\* order. The second parameter is read from `filter.category`; TaskFilter of
\* common/src/lib.rs has no such field and no caller can set it, and
\* `filter.priority` is not read.
fetch_tasks_params(filter) ==
    LET category == None
    IN (IF IsSome(filter.status)
        THEN <<[key |-> "status", value |-> status_name(Unwrap(filter.status))]>>
        ELSE <<>>)
       \o (IF IsSome(category)
           THEN <<[key |-> "category", value |-> Unwrap(category)]>>
           ELSE <<>>)
       \o (IF IsSome(filter.due_before)
           THEN <<[key |-> "due_before", value |-> to_rfc3339(Unwrap(filter.due_before))]>>
           ELSE <<>>)
       \o (IF IsSome(filter.due_after)
           THEN <<[key |-> "due_after", value |-> to_rfc3339(Unwrap(filter.due_after))]>>
           ELSE <<>>)

\* The decoding of a query value by the Query extractor (form_urlencoded):
\* a plus sign stands for a space. The values sent hold no percent sign.
form_urlencoded_decode(text) ==
    [i \in 1..Len(text) |-> IF text[i] = "+" THEN " " ELSE text[i]]

\* The value of a key of the query, decoded, if the key is there.
query_value(params, key) ==
    IF \E i \in 1..Len(params) : params[i].key = key
    THEN Some(form_urlencoded_decode(
                 params[CHOOSE i \in 1..Len(params) : params[i].key = key].value))
    ELSE None

\* Query<TaskFilterQuery>: each field is deserialized from the value of its
\* key, an absent key gives None, and a value that does not deserialize
\* rejects the request.
TaskFilterQuery(params) ==
    LET field(key, parse(_)) ==
            LET v == query_value(params, key)
            IN IF v = None THEN Ok(None)
               ELSE LET r == parse(Unwrap(v))
                    IN IF r.ok THEN Ok(Some(r.value)) ELSE r
        status == field("status", deserialize_status)
        category == field("category", LAMBDA text : Ok(text))
        due_before == field("due_before", parse_datetime)
        due_after == field("due_after", parse_datetime)
    IN IF status.ok /\ category.ok /\ due_before.ok /\ due_after.ok
       THEN Ok([status |-> status.value, category |-> category.value,
                due_before |-> due_before.value, due_after |-> due_after.value])
       ELSE Err("Failed to deserialize query string")

\* handlers::list_tasks: the TaskFilter built from the query. The struct
\* literal sets status, category, due_before and due_after: no value of the
\* query becomes the `priority` that get_tasks reads.
list_tasks_filter(query) ==
    TaskFilter(query.status, None, query.due_before, query.due_after)

\* A mutant of discriminant: the order of the names.
discriminant_by_name(p) ==
    CASE p = "High" -> 0 [] p = "Low" -> 1 [] p = "Medium" -> 2 [] p = "Urgent" -> 3

\* derive(PartialOrd, Ord) of TaskPriority: the order of declaration.
discriminant(p) ==
    CASE p = "Low" -> 0 [] p = "Medium" -> 1 [] p = "High" -> 2 [] p = "Urgent" -> 3

lt(a, b) == discriminant(a) < discriminant(b)

\* Vec::sort: a stable sort by Ord.
RECURSIVE insert(_, _)
insert(sorted, x) ==
    IF sorted = <<>> THEN <<x>>
    ELSE IF lt(x, Head(sorted)) THEN <<x>> \o sorted
    ELSE <<Head(sorted)>> \o insert(Tail(sorted), x)

RECURSIVE sort(_)
sort(v) == IF v = <<>> THEN <<>> ELSE insert(sort(SubSeq(v, 1, Len(v) - 1)), v[Len(v)])

\* The vectors sorted: every arrangement of the four priorities.
Shuffles ==
    {v \in [1..4 -> TaskPriority] : \A p \in TaskPriority : \E i \in 1..4 : v[i] = p}

\* The errors into_response is called with.
SqlxErrors ==
    { RowNotFound, PoolTimedOut,
      DbError("check_violation", Some(<<"t", "a", "s", "k", "s", "_", "t", "i", "t", "l", "e", "_", "c", "h", "e", "c", "k">>), <<"v", "i", "o", "l", "a", "t", "e", "s", " ", "c", "h", "e", "c", "k", " ", "c", "o", "n", "s", "t", "r", "a", "i", "n", "t">>),
      DbError("check_violation", Some(<<"t", "i", "t", "l", "e", "_", "l", "e", "n", "g", "t", "h">>), <<"v", "i", "o", "l", "a", "t", "e", "s", " ", "c", "h", "e", "c", "k", " ", "c", "o", "n", "s", "t", "r", "a", "i", "n", "t">>),
      DbError("check_violation", Some(<<"t", "i", "t", "l", "e", "_", "n", "o", "t", "_", "b", "l", "a", "n", "k">>), <<"v", "i", "o", "l", "a", "t", "e", "s", " ", "c", "h", "e", "c", "k", " ", "c", "o", "n", "s", "t", "r", "a", "i", "n", "t">>),
      DbError("unique_violation", Some(<<"t", "a", "s", "k", "s", "_", "p", "k", "e", "y">>), <<"d", "u", "p", "l", "i", "c", "a", "t", "e", " ", "k", "e", "y", " ", "v", "a", "l", "u", "e">>),
      DbError("unique_violation", Some(<<"t", "a", "s", "k", "s", "_", "c", "h", "e", "c", "k", "s", "u", "m", "_", "k", "e", "y">>), <<"d", "u", "p", "l", "i", "c", "a", "t", "e", " ", "k", "e", "y", " ", "v", "a", "l", "u", "e">>),
      DbError("string_data_right_truncation", None, <<"v", "a", "l", "u", "e", " ", "t", "o", "o", " ", "l", "o", "n", "g", " ", "f", "o", "r", " ", "t", "y", "p", "e">>),
      DbError("deadlock_detected", None, <<"d", "e", "a", "d", "l", "o", "c", "k", " ", "d", "e", "t", "e", "c", "t", "e", "d">>) }

AppErrors ==
    {TaskNotFound, InternalError, InvalidInput("Title cannot be empty"), InvalidInput("")}
    \cup {DatabaseError(err) : err \in SqlxErrors}

\* fetch_tasks(Some(filter)) sends its request.
FetchTasks ==
    /\ \E filter \in WireFilters :
          wire' = [op |-> "fetch_tasks", pc |-> "sent", filter |-> filter,
                   params |-> fetch_tasks_params(filter)]
    /\ last' = NoCall
    /\ UNCHANGED <<rows, clock, calls, boardVars, view, limiter>>

\* The route GET /api/tasks takes the request: the extractor, then
\* handlers::list_tasks and get_tasks.
ListTasksRoute ==
    /\ wire.op = "fetch_tasks"
    /\ wire.pc = "sent"
    /\ LET query == TaskFilterQuery(wire.params)
       IN IF query.ok
          THEN LET filter == Some(list_tasks_filter(query.value))
               IN /\ last' = [NoCall EXCEPT !.op = "get_tasks", !.request = filter,
                                            !.result = Ok(get_tasks(filter))]
                  /\ wire' = [wire EXCEPT !.pc = "served"]
          ELSE /\ last' = NoCall
               /\ wire' = [wire EXCEPT !.pc = "rejected"]
    /\ UNCHANGED <<rows, clock, calls, boardVars, view, limiter>>

IntoResponse ==
    /\ \E e \in AppErrors :
          wire' = [op |-> "into_response", input |-> e, output |-> into_response(e)]
    /\ last' = NoCall
    /\ UNCHANGED <<rows, clock, calls, boardVars, view, limiter>>

SortPriorities ==
    /\ \E v \in Shuffles : wire' = [op |-> "sort", input |-> v, output |-> sort(v)]
    /\ last' = NoCall
    /\ UNCHANGED <<rows, clock, calls, boardVars, view, limiter>>

\* A value is serialized and the text deserialized.
RoundTrip ==
    /\ \E ty \in EnumTypes : \E v \in Variants(ty) :
          wire' = [op |-> "round_trip", ty |-> ty, input |-> v,
                   text |-> serialize(ty, v),
                   output |-> deserialize(ty, serialize(ty, v))]
    /\ last' = NoCall
    /\ UNCHANGED <<rows, clock, calls, boardVars, view, limiter>>

Deserialize ==
    /\ \E ty \in EnumTypes, text \in WireTexts :
          wire' = [op |-> "deserialize", ty |-> ty, text |-> text,
                   output |-> deserialize(ty, text)]
    /\ last' = NoCall
    /\ UNCHANGED <<rows, clock, calls, boardVars, view, limiter>>

WireNext ==
    \/ FetchTasks \/ ListTasksRoute \/ IntoResponse \/ SortPriorities
    \/ RoundTrip \/ Deserialize

SpecWire == CrudInit /\ [][WireNext]_vars

(***************************************************************************)
(* Properties of the HTTP boundary                                         *)
(***************************************************************************)
FilterKeys == {"status", "priority", "due_before", "due_after"}

\* C24: for every filter passed to fetch_tasks, each present predicate among
\* status, priority, due_before and due_after is sent as a query parameter
\* and each absent one is omitted, and the request is served by a get_tasks
\* whose filter equals the filter passed.
C24_FilterReachesStore ==
    (wire.op = "fetch_tasks" /\ wire.pc # "sent") =>
        /\ \A key \in FilterKeys :
              IsSome(wire.filter[key]) <=>
                  \E i \in 1..Len(wire.params) : wire.params[i].key = key
        /\ wire.pc = "served"
        /\ last.op = "get_tasks"
        /\ last.request = Some(wire.filter)

\* The condition the database reported is a violated check constraint or a
\* value too long for its column.
CheckOrLength(err) ==
    err.database /\ err.code \in {"check_violation", "string_data_right_truncation"}

\* The response names a constraint with `check` or `length` in its name, or
\* its message holds `value too long`.
NamedCheckOrLength(err) ==
    /\ err.database
    /\ \/ /\ IsSome(err.constraint)
          /\ \/ contains(Unwrap(err.constraint), <<"c", "h", "e", "c", "k">>)
             \/ contains(Unwrap(err.constraint), <<"l", "e", "n", "g", "t", "h">>)
       \/ contains(err.message, <<"v", "a", "l", "u", "e", " ", "t", "o", "o", " ", "l", "o", "n", "g">>)

\* What C26 says of every error but the database errors: NotFound is 404,
\* InvalidInput is 400 with its reason, InternalError is 500.
OtherClasses(e, r) ==
    /\ r.status \in {400, 404, 500}
    /\ e.kind = "TaskNotFound" => r.status = 404
    /\ e.kind = "InvalidInput" => r.status = 400 /\ r.error = e.detail
    /\ e.kind = "InternalError" => r.status = 500 /\ r.error = "Internal server error"

C27_PriorityOrder ==
    /\ lt("Low", "Medium") /\ lt("Medium", "High") /\ lt("High", "Urgent")
    /\ \A a, b \in TaskPriority :
          /\ (a # b) => (lt(a, b) \/ lt(b, a))
          /\ ~(lt(a, b) /\ lt(b, a))
          /\ \A c \in TaskPriority : (lt(a, b) /\ lt(b, c)) => lt(a, c)
    /\ wire.op = "sort" => wire.output = <<"Low", "Medium", "High", "Urgent">>

\* Urgent, Low, High, Medium has been sorted.
C27_Witness ==
    /\ wire.op = "sort"
    /\ wire.input = <<"Urgent", "Low", "High", "Medium">>
    /\ wire.output # wire.input

\* C28: a status or priority is written as its variant name and read back as
\* the same value; a text is read as a value only if it is exactly the name
\* of a variant of the type, and as that variant, and fails otherwise.
C28_EnumRoundTrip ==
    /\ wire.op = "round_trip" =>
          /\ wire.output = Ok(wire.input)
          /\ wire.input = "InProgress" => wire.text = <<"I", "n", "P", "r", "o", "g", "r", "e", "s", "s">>
          /\ wire.input = "Urgent" => wire.text = <<"U", "r", "g", "e", "n", "t">>
    /\ wire.op = "deserialize" =>
          IF \E v \in Variants(wire.ty) : serialize(wire.ty, v) = wire.text
          THEN /\ wire.output.ok
               /\ serialize(wire.ty, wire.output.value) = wire.text
          ELSE ~wire.output.ok

\* The text `todo` has failed to deserialize as a TaskStatus.
C28_Witness ==
    /\ wire.op = "deserialize"
    /\ wire.ty = "TaskStatus"
    /\ wire.text = <<"t", "o", "d", "o">>
    /\ ~wire.output.ok

(***************************************************************************)
(* frontend/src/logic/task_list_logic.rs                                   *)
(***************************************************************************)
\* The longest list given to filter_and_group_tasks.
MaxListLen == 3

\* The lists of tasks grouped: every priority and the statuses of two
\* columns and of the Backlog at every place; the id of a task is its place
\* in the list.
ViewTask(id, status, priority) == Task(id, "t", None, status, priority, None, 0, 0)
ViewStatuses == {"Todo", "InProgress", "Backlog"}
ViewLists ==
    UNION { { [i \in 1..n |-> ViewTask(i, f[i][1], f[i][2])] :
                f \in [1..n -> ViewStatuses \X TaskPriority] } : n \in 0..MaxListLen }
ViewFilters == {None, Some("High")}

\* A mutant of visible: the Backlog is shown.
visible_with_backlog(task, priority_filter) ==
    priority_filter = None \/ priority_filter = Some(task.priority)

\* The filter closure of filter_and_group_tasks.
visible(task, priority_filter) ==
    LET priority_match == priority_filter = None \/ priority_filter = Some(task.priority)
        not_backlog == task.status # "Backlog"
    IN priority_match /\ not_backlog

\* b.priority.cmp(&a.priority) is Less: b orders before a.
cmp_less(b, a) == lt(b.priority, a.priority)

\* A mutant of sort_by_priority: a.priority.cmp(&b.priority), ascending.
RECURSIVE sort_by_priority_ascending(_)
sort_by_priority_ascending(v) ==
    LET RECURSIVE place(_, _)
        place(sorted, x) ==
            IF sorted = <<>> THEN <<x>>
            ELSE IF cmp_less(x, Head(sorted)) THEN <<x>> \o sorted
            ELSE <<Head(sorted)>> \o place(Tail(sorted), x)
    IN IF v = <<>> THEN <<>>
       ELSE place(sort_by_priority_ascending(SubSeq(v, 1, Len(v) - 1)), v[Len(v)])

\* tasks_list.sort_by(|a, b| b.priority.cmp(&a.priority)): a stable sort, a
\* before b when b's priority is less than a's.
RECURSIVE sort_by_priority(_)
sort_by_priority(v) ==
    LET RECURSIVE place(_, _)
        place(sorted, x) ==
            IF sorted = <<>> THEN <<x>>
            ELSE IF cmp_less(Head(sorted), x) THEN <<x>> \o sorted
            ELSE <<Head(sorted)>> \o place(Tail(sorted), x)
    IN IF v = <<>> THEN <<>>
       ELSE place(sort_by_priority(SubSeq(v, 1, Len(v) - 1)), v[Len(v)])

\* The HashMap filter_and_group_tasks returns: a key for every status of a
\* filtered task and for Todo, InProgress and Completed.
filter_and_group_tasks(tasks, priority_filter) ==
    LET filtered == SelectSeq(tasks, LAMBDA task : visible(task, priority_filter))
        keys == {filtered[i].status : i \in 1..Len(filtered)}
                \cup {"Todo", "InProgress", "Completed"}
    IN [status \in keys |->
          sort_by_priority(SelectSeq(filtered, LAMBDA task : task.status = status))]

\* TaskList is given a list and a priority filter.
ViewInit ==
    /\ client = NoClient
    /\ user = NoUser
    /\ just = Nothing
    /\ wire = NoWire
    /\ limiter = NoLimiter
    /\ rows = <<>>
    /\ clock = 0
    /\ calls = [p \in Procs |-> Idle]
    /\ last = NoCall
    /\ view \in {[op |-> "given", tasks |-> tasks, priority_filter |-> f] :
                    tasks \in ViewLists, f \in ViewFilters}

\* The memo filtered_and_grouped_tasks runs.
Group ==
    /\ view.op = "given"
    /\ view' = [op |-> "grouped", tasks |-> view.tasks,
                priority_filter |-> view.priority_filter,
                grouped |-> filter_and_group_tasks(view.tasks, view.priority_filter)]
    /\ UNCHANGED <<storeVars, boardVars, wire, limiter>>

ViewNext == Group

SpecView == ViewInit /\ [][ViewNext]_vars

\* C34: every task of the input that is not in the Backlog and whose
\* priority passes the filter is once in the group of its status and in no
\* other; the groups hold no other task; Todo, InProgress and Completed are
\* keys, Backlog is not.
C34_GroupsPartitionVisible ==
    view.op = "grouped" =>
        LET g == view.grouped
        IN /\ {"Todo", "InProgress", "Completed"} \subseteq DOMAIN g
           /\ "Backlog" \notin DOMAIN g
           /\ \A i \in 1..Len(view.tasks) :
                 LET task == view.tasks[i]
                 IN \A k \in DOMAIN g :
                       Cardinality({j \in 1..Len(g[k]) : g[k][j] = task}) =
                          IF task.status # "Backlog"
                             /\ (view.priority_filter = None
                                 \/ Unwrap(view.priority_filter) = task.priority)
                             /\ k = task.status
                          THEN 1 ELSE 0
           /\ \A k \in DOMAIN g : \A j \in 1..Len(g[k]) :
                 \E i \in 1..Len(view.tasks) : view.tasks[i] = g[k][j]

\* A list with a Backlog task, a task the filter hides and a task it shows
\* has been grouped.
C34_Witness ==
    /\ view.op = "grouped"
    /\ view.priority_filter = Some("High")
    /\ \E i \in 1..Len(view.tasks) : view.tasks[i].status = "Backlog"
    /\ \E i \in 1..Len(view.tasks) :
          view.tasks[i].status = "Todo" /\ view.tasks[i].priority = "Low"
    /\ Len(view.grouped["InProgress"]) = 1
    /\ view.grouped["Todo"] = <<>>

\* C35: in every group the priorities descend from Urgent to Low, and of
\* two tasks of the same priority the one earlier in the input comes first.
C35_GroupsByPriorityDescending ==
    view.op = "grouped" =>
        \A k \in DOMAIN view.grouped :
            LET group == view.grouped[k]
            IN \A i, j \in 1..Len(group) :
                  i < j =>
                     /\ discriminant(group[i].priority) >= discriminant(group[j].priority)
                     /\ group[i].priority = group[j].priority => group[i].id < group[j].id

\* A group of three has been sorted: an Urgent task that came last is first,
\* and two Low tasks keep their order.
C35_Witness ==
    /\ view.op = "grouped"
    /\ Len(view.tasks) = 3
    /\ Len(view.grouped["Todo"]) = 3
    /\ view.tasks[3].priority = "Urgent"
    /\ view.tasks[1].priority = "Low" /\ view.tasks[2].priority = "Low"
    /\ view.grouped["Todo"] = <<view.tasks[3], view.tasks[1], view.tasks[2]>>

(***************************************************************************)
(* backend/src/rate_limit.rs                                               *)
(***************************************************************************)
\* The last instant of the monotonic clock, and the calls of is_allowed made
\* at most.
MaxInstant == 3
MaxCalls == 4

\* The client ids, and the configurations read by RateLimiter::new.
LimiterClients == {"x", "y"}
MaxRequests == {0, 1, 2}
WindowMs == {1}

\* A mutant of is_allowed: a refused call restarts the window.
is_allowed_restarting(clients, client_id, now, max_requests, window) ==
    IF IsSome(clients[client_id])
    THEN LET last_request_time == Unwrap(clients[client_id])[1]
             count == Unwrap(clients[client_id])[2]
         IN IF now - last_request_time > window
            THEN [result |-> TRUE, clients |-> [clients EXCEPT ![client_id] = Some(<<now, 1>>)]]
            ELSE IF count >= max_requests
                 THEN [result |-> FALSE,
                       clients |-> [clients EXCEPT ![client_id] = Some(<<now, count>>)]]
                 ELSE [result |-> TRUE,
                       clients |-> [clients EXCEPT ![client_id] =
                                       Some(<<last_request_time, count + 1>>)]]
    ELSE [result |-> TRUE, clients |-> [clients EXCEPT ![client_id] = Some(<<now, 1>>)]]

\* The body of RateLimiter::is_allowed under the lock: what it returns and
\* the clients map it leaves. An absent key of the HashMap is None.
is_allowed(clients, client_id, now, max_requests, window) ==
    IF IsSome(clients[client_id])
    THEN LET last_request_time == Unwrap(clients[client_id])[1]
             count == Unwrap(clients[client_id])[2]
         IN IF now - last_request_time > window
            THEN [result |-> TRUE, clients |-> [clients EXCEPT ![client_id] = Some(<<now, 1>>)]]
            ELSE IF count >= max_requests
                 THEN [result |-> FALSE, clients |-> clients]
                 ELSE [result |-> TRUE,
                       clients |-> [clients EXCEPT ![client_id] =
                                       Some(<<last_request_time, count + 1>>)]]
    ELSE [result |-> TRUE, clients |-> [clients EXCEPT ![client_id] = Some(<<now, 1>>)]]

\* No call of is_allowed has returned in the step just taken.
NoReturn == [by |-> "", client_id |-> "", result |-> FALSE, before |-> None]

\* RateLimiter::new with a configuration of the environment. log is the
\* history of the calls returned: the client, the instant read, the answer
\* and the window start recorded for the client after the call.
LimiterInit ==
    /\ client = NoClient
    /\ user = NoUser
    /\ just = Nothing
    /\ wire = NoWire
    /\ view = NoView
    /\ rows = <<>>
    /\ clock = 0
    /\ calls = [p \in Procs |-> Idle]
    /\ last = NoCall
    /\ \E max_requests \in MaxRequests, window_ms \in WindowMs :
          limiter = [max_requests |-> max_requests, window_ms |-> window_ms,
                     clients |-> [c \in LimiterClients |-> None],
                     lock |-> None, now |-> 0,
                     pc |-> [p \in Procs |-> [at |-> "idle", client_id |-> ""]],
                     returned |-> NoReturn, log |-> <<>>]

\* A request of a client arrives: is_allowed is called and waits for
\* self.clients.lock().
IsAllowedCall ==
    /\ \E p \in Procs, c \in LimiterClients :
          /\ limiter.pc[p].at = "idle"
          /\ Len(limiter.log)
                + Cardinality({q \in Procs : limiter.pc[q].at # "idle"}) < MaxCalls
          /\ limiter' = [limiter EXCEPT !.pc[p] = [at |-> "lock", client_id |-> c],
                                        !.returned = NoReturn]
    /\ UNCHANGED <<storeVars, boardVars, wire, view>>

\* lock().await completes: the mutex is free and the call takes it.
IsAllowedLock ==
    /\ \E p \in Procs :
          /\ limiter.pc[p].at = "lock"
          /\ limiter.lock = None
          /\ limiter' = [limiter EXCEPT !.pc[p].at = "locked", !.lock = Some(p),
                                        !.returned = NoReturn]
    /\ UNCHANGED <<storeVars, boardVars, wire, view>>

\* The rest of is_allowed: Instant::now(), the test and the change of the
\* map, and the return, which drops the guard.
IsAllowedReturn ==
    /\ \E p \in Procs :
          /\ limiter.pc[p].at = "locked"
          /\ LET c == limiter.pc[p].client_id
                 r == is_allowed(limiter.clients, c, limiter.now,
                                 limiter.max_requests, limiter.window_ms)
             IN limiter' = [limiter EXCEPT
                    !.clients = r.clients,
                    !.lock = None,
                    !.pc[p] = [at |-> "idle", client_id |-> ""],
                    !.returned = [by |-> p, client_id |-> c, result |-> r.result,
                                  before |-> limiter.clients[c]],
                    !.log = Append(@, [client_id |-> c, at |-> limiter.now,
                                       result |-> r.result,
                                       start |-> Unwrap(r.clients[c])[1]])]
    /\ UNCHANGED <<storeVars, boardVars, wire, view>>

\* Time passes on the monotonic clock.
LimiterTick ==
    /\ limiter.now < MaxInstant
    /\ limiter' = [limiter EXCEPT !.now = @ + 1, !.returned = NoReturn]
    /\ UNCHANGED <<storeVars, boardVars, wire, view>>

LimiterNext == IsAllowedCall \/ IsAllowedLock \/ IsAllowedReturn \/ LimiterTick

SpecLimiter == LimiterInit /\ [][LimiterNext]_vars

(***************************************************************************)
(* Properties of the RateLimiter                                           *)
(***************************************************************************)
\* The calls for client c that returned true in the window that began at s.
Granted(c, s) ==
    {i \in 1..Len(limiter.log) :
        /\ limiter.log[i].client_id = c
        /\ limiter.log[i].result
        /\ limiter.log[i].start = s}

\* C36: for every client and every configured max_requests, is_allowed
\* returns true at most max_requests times in one window of the client; and
\* a call made when more than window_ms has passed since the recorded start
\* returns true and records a new window with count 1.
C36_AtMostMaxPerWindow ==
    [][/\ \A c \in LimiterClients : \A s \in 0..MaxInstant :
             Cardinality(Granted(c, s))' <= limiter.max_requests
       /\ \A c \in LimiterClients :
             (/\ limiter'.returned.client_id = c
              /\ IsSome(limiter.clients[c])
              /\ limiter.now - Unwrap(limiter.clients[c])[1] > limiter.window_ms)
             => /\ limiter'.returned.result
                /\ limiter'.clients[c] = Some(<<limiter.now, 1>>)]_vars

\* C37: a call of is_allowed for a client changes the entry of no other
\* client; a call that returns false leaves the client's own entry as it
\* was; and the count recorded for a client is the number of calls that
\* returned true in its recorded window, however the calls overlap.
C37_OtherEntriesUntouched ==
    /\ [][\A c \in LimiterClients :
            /\ limiter'.returned.client_id # c => limiter'.clients[c] = limiter.clients[c]
            /\ (limiter'.returned.client_id = c /\ ~limiter'.returned.result)
                  => limiter'.clients[c] = limiter.clients[c]]_vars
    /\ [](\A c \in LimiterClients :
            IF IsSome(limiter.clients[c])
            THEN Unwrap(limiter.clients[c])[2] =
                    Cardinality(Granted(c, Unwrap(limiter.clients[c])[1]))
            ELSE \A i \in 1..Len(limiter.log) : limiter.log[i].client_id # c)
    /\ [](Cardinality({p \in Procs : limiter.pc[p].at = "locked"}) <= 1)

\* A call for x has been refused while a call for y waited for the lock, and
\* y has an entry.
C37_Witness ==
    /\ limiter.returned.client_id = "x"
    /\ ~limiter.returned.result
    /\ IsSome(limiter.clients["y"])
    /\ \E p \in Procs : limiter.pc[p].at = "lock" /\ limiter.pc[p].client_id = "y"

====
